---------------------------- MODULE Spec2Model ----------------------------
(***************************************************************************)
(* keyberon: the HID key codes and the 8-byte boot-keyboard report of      *)
(* src/src/key_code.rs, and the RTFM tick / USB handlers of                *)
(* src/examples/keyberon75.rs.                                             *)
(***************************************************************************)
EXTENDS Integers, Sequences, FiniteSets

(***************************************************************************)
(* KeyCode: #[repr(u8)] enum, the discriminants are the wire values.       *)
(***************************************************************************)
No == 0
ErrorRollOver == 1
PostFail == 2
ErrorUndefined == 3
A == 4
B == 5
G == 10
Q == 20
ExSel == 164
LCtrl == 224
LShift == 225
RGui == 231
MediaPlayPause == 232
MediaCalc == 251

\* Every variant of the enum: 0x00..0xA4, then 0xE0..0xFB.
KeyCode == (No..ExSel) \cup (LCtrl..MediaCalc)

\* Values of a u8.
U8 == 0..255

(***************************************************************************)
(* Bounds of the model.                                                    *)
(***************************************************************************)
\* Letter keys A, B, ... offered to pressed() in Spec.
NumLetters == 2
\* pressed() calls with a slot code counted in SpecDup, beyond the six slots.
MaxPresses == 8

(***************************************************************************)
(* u8 arithmetic.                                                          *)
(***************************************************************************)
Bit(x, i) == (x \div (2^i)) % 2

\* x | y on u8.
RECURSIVE BitOrFrom(_, _, _)
BitOrFrom(x, y, i) ==
    IF i > 7 THEN 0
    ELSE (IF Bit(x, i) = 1 \/ Bit(y, i) = 1 THEN 2^i ELSE 0) + BitOrFrom(x, y, i + 1)

BitOr(x, y) == BitOrFrom(x, y, 0)

(***************************************************************************)
(* impl KeyCode                                                            *)
(***************************************************************************)
is_modifier_strict(k) == LCtrl < k /\ k < RGui

is_modifier(k) == LCtrl <= k /\ k <= RGui

\* 1 << (self as u8 - LCtrl as u8), in u8.
as_modifier_bit(k) ==
    IF is_modifier(k) THEN (2^(k - LCtrl)) % 256 ELSE 0

(***************************************************************************)
(* KbHidReport([u8; 8]): a function 0..7 -> u8.                            *)
(***************************************************************************)
Slots == 2..7

Default == [i \in 0..7 |-> 0]

set_all_whole(r, k) == [i \in 0..7 |-> k]

set_all_from3(r, k) == [i \in 0..7 |-> IF i \in 3..7 THEN k ELSE r[i]]

\* for c in &mut self.0[2..] { *c = kc as u8 }
set_all(r, k) == [i \in 0..7 |-> IF i \in Slots THEN k ELSE r[i]]

find_zero_last(r) ==
    IF \E i \in Slots : r[i] = 0
    THEN CHOOSE i \in Slots : r[i] = 0 /\ \A j \in Slots : j > i => r[j] # 0
    ELSE -1

\* self.0[2..].iter_mut().find(|c| **c == 0): the index of the first zero
\* slot, -1 for None.
find_zero(r) ==
    IF \E i \in Slots : r[i] = 0
    THEN CHOOSE i \in Slots : r[i] = 0 /\ \A j \in Slots : j < i => r[j] # 0
    ELSE -1

pressed_mod_assign(r, k) == [r EXCEPT ![0] = as_modifier_bit(k)]

\* self.0[0] |= kc.as_modifier_bit()
pressed_mod(r, k) == [r EXCEPT ![0] = BitOr(r[0], as_modifier_bit(k))]

pressed_key_wrap(r, k) ==
    IF find_zero(r) # -1 THEN [r EXCEPT ![find_zero(r)] = k] ELSE [r EXCEPT ![2] = k]

pressed_key_dedup(r, k) ==
    IF \E i \in Slots : r[i] = k THEN r
    ELSE IF find_zero(r) # -1 THEN [r EXCEPT ![find_zero(r)] = k]
    ELSE set_all(r, ErrorRollOver)

pressed_key_keep(r, k) ==
    IF find_zero(r) # -1 THEN [r EXCEPT ![find_zero(r)] = k] ELSE r

\* .find(..).map(|c| *c = kc as u8).unwrap_or_else(|| self.set_all(ErrorRollOver))
pressed_key(r, k) ==
    IF find_zero(r) # -1
    THEN [r EXCEPT ![find_zero(r)] = k]
    ELSE set_all(r, ErrorRollOver)

\* KbHidReport::pressed
pressed(r, k) ==
    IF k = No THEN r
    ELSE IF k \in {ErrorRollOver, PostFail, ErrorUndefined} THEN set_all(r, k)
    ELSE IF is_modifier(k) THEN pressed_mod(r, k)
    ELSE pressed_key(r, k)

\* KbHidReport::from_iter: fold pressed over the codes, from default().
RECURSIVE from_iter_at(_, _, _)
from_iter_at(r, ks, i) ==
    IF i > Len(ks) THEN r ELSE from_iter_at(pressed(r, ks[i]), ks, i + 1)

from_iter(ks) == from_iter_at(Default, ks, 1)

(***************************************************************************)
(* State.                                                                  *)
(***************************************************************************)
VARIABLES
    report,     \* the KbHidReport under construction
    kc,         \* the argument of the last pressed() call (No before any)
    hist,       \* the codes passed to pressed() since default()
    cnt,        \* SpecDup: the pressed() calls with a slot code since default()
    key,        \* SpecKey: the key code classified
    keyMod,     \* SpecKey: is_modifier(key), once computed
    keyBit,     \* SpecKey: as_modifier_bit(key), once computed
    keyDone,    \* SpecKey: the two results are computed
    pc,         \* tick task: where the handler is ("idle": not running)
    ret,        \* tick task: where send_report returns to
    rep,        \* send_report: the report built by from_iter
    retried,    \* send_report: write returned Ok(0) at least once in this call
    evq,        \* tick task: what debouncer.events() yields in this invocation
    upd,        \* tick task: what debouncer.update returned in this invocation
    evi,        \* tick task: index in evq of the next event of the for loop
    log,        \* tick task: layout calls and send_report calls of this invocation
    basepri,    \* the priority mask set by a resource lock (0: nothing masked)
    usbRun,     \* the USB handler running ("none", "usb_tx", "usb_rx")
    usbPc,      \* where the running USB handler is in usb_poll
    epBusy,     \* usb_class: the IN endpoint still holds an unsent report
    wire,       \* usb_class: the last report written to the IN endpoint
    stable,     \* debouncer: the debounced set of pressed positions
    prevStable, \* debouncer: the debounced set before the last change
    stack       \* layout: the pressed positions, in press order

reportVars == <<report, kc, hist, cnt>>
keyVars == <<key, keyMod, keyBit, keyDone>>
tickVars == <<pc, ret, rep, retried, evq, upd, evi, log, basepri, usbRun, usbPc,
              epBusy, wire, stable, prevStable, stack>>
vars == <<report, kc, hist, cnt, key, keyMod, keyBit, keyDone, pc, ret, rep, retried,
          evq, upd, evi, log, basepri, usbRun, usbPc, epBusy, wire, stable,
          prevStable, stack>>

ReportInit == report = Default /\ kc = No /\ hist = {} /\ cnt = 0
KeyIdle == key = No /\ keyMod = FALSE /\ keyBit = 0 /\ keyDone = FALSE

\* init::LateResources: nothing pressed, nothing sent, no handler running.
TickIdle ==
    /\ pc = "idle" /\ ret = "idle" /\ rep = Default /\ retried = FALSE
    /\ evq = <<>> /\ upd = "none" /\ evi = 1 /\ log = <<>>
    /\ basepri = 0 /\ usbRun = "none" /\ usbPc = "none"
    /\ epBusy = FALSE /\ wire = Default
    /\ stable = {} /\ prevStable = {} /\ stack = <<>>

(***************************************************************************)
(* Spec: a report built by pressed() calls.                                *)
(***************************************************************************)
Letters == A..(A + NumLetters - 1)

Keys == {No, ErrorRollOver, PostFail, ErrorUndefined, LCtrl, RGui, MediaPlayPause}
            \cup Letters

\* res.pressed(kc)
Press(k) ==
    /\ report' = pressed(report, k)
    /\ kc' = k
    /\ hist' = hist \cup {k}
    /\ UNCHANGED <<cnt, keyVars, tickVars>>

\* let mut res = Self::default();
NewReport ==
    /\ hist # {}
    /\ report' = Default
    /\ kc' = No
    /\ hist' = {}
    /\ cnt' = 0
    /\ UNCHANGED <<keyVars, tickVars>>

Init == ReportInit /\ KeyIdle /\ TickIdle

Next == (\E k \in Keys : Press(k)) \/ NewReport

Spec == Init /\ [][Next]_vars


(***************************************************************************)
(* SpecRoll: a report given the seven letters A..G, No, ErrorRollOver,     *)
(* PostFail and a modifier, in any order and any number of times.          *)
(***************************************************************************)
RollLetters == A..G

RollKeys == {No, ErrorRollOver, PostFail, LCtrl} \cup RollLetters

RollPress(k) == Press(k)

RollNext == (\E k \in RollKeys : RollPress(k)) \/ NewReport

SpecRoll == Init /\ [][RollNext]_vars

(***************************************************************************)
(* SpecComm: the reports pressed() calls can build, without the history.   *)
(***************************************************************************)
\* res.pressed(kc), the call only
CommPress(k) ==
    /\ report' = pressed(report, k)
    /\ UNCHANGED <<kc, hist, cnt, keyVars, tickVars>>

CommNext == \E k \in Keys : CommPress(k)

SpecComm == Init /\ [][CommNext]_vars

(***************************************************************************)
(* SpecKey: is_modifier and as_modifier_bit on every variant of KeyCode.   *)
(***************************************************************************)
KeyInit ==
    /\ ReportInit
    /\ TickIdle
    /\ key \in KeyCode /\ keyMod = FALSE /\ keyBit = 0 /\ keyDone = FALSE

Classify ==
    /\ ~keyDone
    /\ keyMod' = is_modifier(key)
    /\ keyBit' = as_modifier_bit(key)
    /\ keyDone' = TRUE
    /\ UNCHANGED <<key, reportVars, tickVars>>

SpecKey == KeyInit /\ [][Classify]_vars

(***************************************************************************)
(* The RTFM application of examples/keyberon75.rs: the tick task           *)
(* (priority 1) and the USB tasks usb_tx, usb_rx (priority 2) on one CPU.  *)
(* The debouncer, the layout and the USB class are not in the sources at    *)
(* hand: the debouncer and the layout follow the design document, for two  *)
(* keys of LAYERS bound to plain key codes; whether a sample has been      *)
(* stable long enough is left to the environment.                          *)
(***************************************************************************)
\* priority = 2 of usb_tx and usb_rx, the ceiling of usb_class.
UsbPriority == 2

\* The positions (row, column) of LAYERS[0] the model scans.
Pos == {<<1, 1>>, <<4, 5>>}

\* LAYERS[0][1][1] = k(Q), LAYERS[0][4][5] = k(LShift).
LayerKey(p) == IF p = <<1, 1>> THEN Q ELSE LShift

RowMajorLess(p, q) == p[1] < q[1] \/ (p[1] = q[1] /\ p[2] < q[2])

\* The positions of S in row-major order.
RECURSIVE RowMajor(_)
RowMajor(S) ==
    IF S = {} THEN <<>>
    ELSE LET m == CHOOSE p \in S : \A q \in S \ {p} : RowMajorLess(p, q)
         IN  <<m>> \o RowMajor(S \ {m})

\* debouncer.events(): row-major over the positions that changed, Press where
\* the new stable set holds the position, else Release.
DebouncerEvents(old, new) ==
    LET ps == RowMajor((old \ new) \cup (new \ old))
    IN  [i \in 1..Len(ps) |->
            IF ps[i] \in new THEN <<"Press", ps[i]>> ELSE <<"Release", ps[i]>>]

\* debouncer.update(sample): true iff the sample has held long enough
\* (settled) and differs from the stable set.
DebouncerUpdate(sample, settled) == settled /\ sample # stable

\* layout.event(ev): a press pushes the position, a release removes it.
LayoutEvent(st, ev) ==
    IF ev[1] = "Press" THEN Append(st, ev[2])
    ELSE SelectSeq(st, LAMBDA p : p # ev[2])

\* The key codes the layout yields: those of the pressed positions.
LayoutCodes(st) == [i \in 1..Len(st) |-> LayerKey(st[i])]

lock_noraise(b) == b

\* usb_class.lock(..): raise the priority mask to the ceiling of usb_class.
lock_raise(b) == IF b < UsbPriority THEN UsbPriority ELSE b

sr_retry_any(res) == res \in {"Ok0", "OkN"}

\* while let Ok(0) = usb_class.lock(|k| k.write(..)) {}
sr_retry(res) == res = "Ok0"

after_update_always(changed) == "events"

\* if !debouncer.update(..) { return; }
after_update(changed) == IF changed THEN "events" ELSE "idle"

\* The resources of usb_tx and usb_rx (#[task(.., resources = [..])]).
UsbResources == {"usb_dev", "usb_class"}

\* The tick task runs when no USB handler does.
TickRuns == usbRun = "none"

\* TIM3 fires: tick starts, timer.clear_update_interrupt_flag().
TickStart ==
    /\ TickRuns /\ pc = "idle"
    /\ pc' = "layout_tick"
    /\ log' = <<>> /\ evq' = <<>> /\ upd' = "none" /\ evi' = 1
    /\ UNCHANGED <<ret, rep, retried, basepri, usbRun, usbPc, epBusy, wire,
                   stable, prevStable, stack, reportVars, keyVars>>

\* send_report(c.resources.layout.tick(), ..): the call and from_iter.
LayoutTick ==
    /\ TickRuns /\ pc = "layout_tick"
    /\ rep' = from_iter(LayoutCodes(stack))
    /\ log' = log \o << <<"tick">>, <<"send">> >>
    /\ ret' = "update" /\ retried' = FALSE
    /\ pc' = "sr_lock_set"
    /\ UNCHANGED <<evq, upd, evi, basepri, usbRun, usbPc, epBusy, wire, stable,
                   prevStable, stack, reportVars, keyVars>>

\* usb_class.lock(|k| ..), entering the closure of set_keyboard_report.
SrLockSet ==
    /\ TickRuns /\ pc = "sr_lock_set"
    /\ basepri' = lock_raise(basepri)
    /\ pc' = "sr_set"
    /\ UNCHANGED <<ret, rep, retried, evq, upd, evi, log, usbRun, usbPc, epBusy, wire,
                   stable, prevStable, stack, reportVars, keyVars>>

\* k.device_mut().set_keyboard_report(report.clone()), and the end of the lock.
SrSet ==
    /\ TickRuns /\ pc = "sr_set"
    /\ \E changed \in BOOLEAN :
           pc' = IF changed THEN "sr_lock_write" ELSE ret
    /\ basepri' = 0
    /\ UNCHANGED <<ret, rep, retried, evq, upd, evi, log, usbRun, usbPc, epBusy, wire,
                   stable, prevStable, stack, reportVars, keyVars>>

\* usb_class.lock(|k| ..), entering the closure of write.
SrLockWrite ==
    /\ TickRuns /\ pc = "sr_lock_write"
    /\ basepri' = lock_raise(basepri)
    /\ pc' = "sr_write"
    /\ UNCHANGED <<ret, rep, retried, evq, upd, evi, log, usbRun, usbPc, epBusy, wire,
                   stable, prevStable, stack, reportVars, keyVars>>

\* k.write(report.as_bytes()), the end of the lock and the loop test.
SrWrite ==
    /\ TickRuns /\ pc = "sr_write"
    /\ \E res \in (IF epBusy THEN {"Ok0"} ELSE {"OkN", "Err"}) :
           /\ pc' = IF sr_retry(res) THEN "sr_lock_write" ELSE ret
           /\ retried' = (retried \/ res = "Ok0")
           /\ epBusy' = (epBusy \/ res = "OkN")
           /\ wire' = IF res = "OkN" THEN rep ELSE wire
    /\ basepri' = 0
    /\ UNCHANGED <<ret, rep, evq, upd, evi, log, usbRun, usbPc, stable, prevStable,
                   stack, reportVars, keyVars>>

\* debouncer.update(matrix.get()); on true, debouncer.events().
Update ==
    /\ TickRuns /\ pc = "update"
    /\ \E sample \in SUBSET Pos : \E settled \in BOOLEAN :
           LET changed == DebouncerUpdate(sample, settled) IN
           /\ pc' = after_update(changed)
           /\ upd' = IF changed THEN "true" ELSE "false"
           /\ stable' = IF changed THEN sample ELSE stable
           /\ prevStable' = IF changed THEN stable ELSE prevStable
           /\ evq' = DebouncerEvents(IF changed THEN stable ELSE prevStable,
                                     IF changed THEN sample ELSE stable)
    /\ evi' = 1
    /\ UNCHANGED <<ret, rep, retried, log, basepri, usbRun, usbPc, epBusy, wire,
                   stack, reportVars, keyVars>>

\* for event in debouncer.events() { send_report(layout.event(event), ..) }
NextEvent ==
    /\ TickRuns /\ pc = "events"
    /\ IF evi > Len(evq)
       THEN /\ pc' = "idle"
            /\ UNCHANGED <<ret, rep, retried, evi, log, stack>>
       ELSE /\ stack' = LayoutEvent(stack, evq[evi])
            /\ rep' = from_iter(LayoutCodes(stack'))
            /\ log' = log \o << <<"event", evq[evi]>>, <<"send">> >>
            /\ evi' = evi + 1
            /\ ret' = "events" /\ retried' = FALSE
            /\ pc' = "sr_lock_set"
    /\ UNCHANGED <<evq, upd, basepri, usbRun, usbPc, epBusy, wire, stable,
                   prevStable, reportVars, keyVars>>

\* USB_HP_CAN_TX / USB_LP_CAN_RX0 fires: the handler preempts unless masked.
UsbIrq(h) ==
    /\ usbRun = "none"
    /\ basepri < UsbPriority
    /\ usbRun' = h /\ usbPc' = "poll"
    /\ UNCHANGED <<pc, ret, rep, retried, evq, upd, evi, log, basepri, epBusy, wire,
                   stable, prevStable, stack, reportVars, keyVars>>

\* usb_poll: if usb_dev.poll(&mut [keyboard]) {
UsbDevPoll ==
    /\ usbPc = "poll"
    /\ \E polled \in BOOLEAN :
           /\ usbPc' = IF polled THEN "kbpoll" ELSE "none"
           /\ usbRun' = IF polled THEN usbRun ELSE "none"
    /\ UNCHANGED <<pc, ret, rep, retried, evq, upd, evi, log, basepri, epBusy, wire,
                   stable, prevStable, stack, reportVars, keyVars>>

\* usb_poll: keyboard.poll(); }
KbPoll ==
    /\ usbPc = "kbpoll"
    /\ usbPc' = "none" /\ usbRun' = "none"
    /\ UNCHANGED <<pc, ret, rep, retried, evq, upd, evi, log, basepri, epBusy, wire,
                   stable, prevStable, stack, reportVars, keyVars>>

\* The host polls the IN endpoint and takes the report.
HostPoll ==
    /\ epBusy
    /\ epBusy' = FALSE
    /\ UNCHANGED <<pc, ret, rep, retried, evq, upd, evi, log, basepri, usbRun, usbPc,
                   wire, stable, prevStable, stack, reportVars, keyVars>>

TickInit == ReportInit /\ KeyIdle /\ TickIdle

\* The steps of the tick handler once started.
TickStep ==
    \/ LayoutTick \/ SrLockSet \/ SrSet \/ SrLockWrite \/ SrWrite
    \/ Update \/ NextEvent

UsbStep == UsbDevPoll \/ KbPoll

TickNext ==
    \/ TickStart
    \/ LayoutTick
    \/ SrLockSet
    \/ SrSet
    \/ SrLockWrite
    \/ SrWrite
    \/ Update
    \/ NextEvent
    \/ \E h \in {"usb_tx", "usb_rx"} : UsbIrq(h)
    \/ UsbDevPoll
    \/ KbPoll
    \/ HostPoll

SpecTick == TickInit /\ [][TickNext]_vars

\* The handlers run to completion, the tick handler gets the CPU again and
\* again, and the host keeps polling the endpoint.
SpecTickFair ==
    /\ TickInit
    /\ [][TickNext]_vars
    /\ SF_vars(TickStep)
    /\ WF_vars(UsbStep)
    /\ WF_vars(HostPoll)

(***************************************************************************)
(* Claims.                                                                 *)
(***************************************************************************)
\* A step of the report that is a pressed() call (NewReport empties hist).
IsPress == hist' # {}

\* A code that pressed() stores in a slot: not No, not an error sentinel, not
\* a modifier.
Ordinary(k) == k \notin 0..3 /\ ~(224 <= k /\ k <= 231)

\* How many of bytes 2..8 hold v.
SlotCount(r, v) == Cardinality({i \in 2..7 : r[i] = v})

\* Bytes 2..8 all hold v.
AllSlots(r, v) == \A i \in 2..7 : r[i] = v

\* The values in bytes 2..8.
SlotValues(r) == {r[i] : i \in Slots}

\* C1: after any sequence of pressed calls from default(), no byte of 2..8 is
\* in 0xE0..=0xE7, and bit i of byte 0 is set iff modifier 0xE0+i was pressed.
C1_ModifierBits ==
    /\ \A i \in Slots : ~(224 <= report[i] /\ report[i] <= 231)
    /\ \A i \in 0..7 : (Bit(report[0], i) = 1) <=> ((224 + i) \in hist)

C1_Witness ==
    /\ report[0] = 129
    /\ report[2] = MediaPlayPause
    /\ report[3] = A

\* C2 as stated: once more than six distinct non-modifier codes were pressed,
\* bytes 2..8 are [0x01; 6].
C2_Original ==
    Cardinality({k \in hist : ~(224 <= k /\ k <= 231)}) > 6
        => AllSlots(report, 1)

\* C2 amended: once more than six distinct codes that are neither modifiers
\* nor No, PostFail or ErrorUndefined were pressed, and no PostFail or
\* ErrorUndefined was, bytes 2..8 are [0x01; 6]; while only letters were
\* pressed and fewer than seven presses happened the slots hold exactly the
\* pressed letters, bytes 0 and 1 being 0, and the seventh distinct letter
\* gives [0,0,1,1,1,1,1,1].
C2_Rollover ==
    /\ (/\ Cardinality({k \in hist : Ordinary(k) \/ k = 1}) > 6
        /\ hist \cap {2, 3} = {})
            => AllSlots(report, 1)
    /\ (hist \subseteq RollLetters /\ ~AllSlots(report, 1))
            => /\ SlotValues(report) \ {0} = hist
               /\ report[0] = 0 /\ report[1] = 0
               /\ \A i \in Slots : report[i] = 0 =>
                      \A j \in Slots : j > i => report[j] = 0
    /\ (hist = RollLetters)
            => report = [i \in 0..7 |-> IF i < 2 THEN 0 ELSE 1]

C2_Witness ==
    /\ hist = RollLetters \cup {No, LCtrl}
    /\ AllSlots(report, 1)
    /\ report[0] = 1

\* C3: pressed(k) for an ordinary k writes k into the lowest-indexed zero slot
\* and leaves the other slots unchanged; with no zero slot it overwrites all
\* six slots with ErrorRollOver.
C3_LowestFreeSlot ==
    [][(IsPress /\ Ordinary(kc')) =>
        LET free == {i \in Slots : report[i] = 0} IN
        IF free # {}
        THEN LET m == CHOOSE i \in free : \A j \in free : i <= j IN
             /\ report'[m] = kc'
             /\ \A i \in Slots \ {m} : report'[i] = report[i]
        ELSE \A i \in Slots : report'[i] = 1]_vars

C3_Witness ==
    /\ kc = A
    /\ AllSlots(report, 1)
    /\ hist \subseteq (Letters \cup {MediaPlayPause})

\* Both orders of pressing a and b on r, compared up to the order of bytes 2..8.
SameUpToOrder(x, y) ==
    /\ x[0] = y[0]
    /\ x[1] = y[1]
    /\ \A v \in SlotValues(x) \cup SlotValues(y) : SlotCount(x, v) = SlotCount(y, v)

Commute(r, a, b) ==
    LET ab == pressed(pressed(r, a), b)
        ba == pressed(pressed(r, b), a)
    IN  \/ ab = ba
        \/ AllSlots(ab, 1)
        \/ AllSlots(ba, 1)
        \/ SameUpToOrder(ab, ba)

\* C4 as stated: for any a, b and the report r, pressed(a);pressed(b) and
\* pressed(b);pressed(a) agree on bytes 0, 1 and on the bag of bytes 2..8
\* whenever neither result has its slots filled with ErrorRollOver.
C4_Original == \A a \in Keys : \A b \in Keys : Commute(report, a, b)

\* C4 amended: the same, for any a, b other than PostFail and ErrorUndefined
\* together.
C4_Commutative ==
    \A a \in Keys : \A b \in Keys :
        {a, b} # {PostFail, ErrorUndefined} => Commute(report, a, b)

C4_Witness ==
    /\ report[2] = A
    /\ report[3] = 0
    /\ report[0] = 1
    /\ pressed(pressed(report, B), MediaPlayPause)
           # pressed(pressed(report, MediaPlayPause), B)
    /\ pressed(pressed(report, RGui), B)[0] = 129

\* C5 as stated: once bytes 2..8 are all ErrorRollOver, every further
\* pressed(k) leaves them so.
C5_Original ==
    [][(IsPress /\ AllSlots(report, 1)) => AllSlots(report', 1)]_vars

\* C5 amended: once bytes 2..8 are all ErrorRollOver, every further pressed(k)
\* with k other than PostFail and ErrorUndefined leaves them so.
C5_RolloverSticks ==
    [][(IsPress /\ AllSlots(report, 1) /\ kc' \notin {2, 3})
            => AllSlots(report', 1)]_vars

C5_Witness ==
    /\ AllSlots(report, 1)
    /\ kc = MediaPlayPause
    /\ Cardinality({k \in hist : Ordinary(k)}) = 1
    /\ ErrorRollOver \in hist

\* C6: pressed(k) for an error sentinel k leaves all six slots equal to k, and
\* a slot holding a value in 0x01..=0x03 means all six slots hold that value.
C6_SentinelFillsAll ==
    /\ kc \in 1..3 => AllSlots(report, kc)
    /\ \A i \in Slots : report[i] \in 1..3 => AllSlots(report, report[i])

C6_Witness ==
    /\ kc = ErrorUndefined
    /\ AllSlots(report, 3)
    /\ {A, PostFail, LCtrl} \subseteq hist

\* C7: is_modifier(k) iff 0xE0 <= k <= 0xE7; as_modifier_bit(k) is the single
\* bit k - 0xE0 of a u8 for a modifier and 0 otherwise, the media codes
\* 0xE8..=0xFB included.
C7_ModifierClass ==
    keyDone =>
        /\ keyMod <=> (224 <= key /\ key <= 231)
        /\ keyBit \in U8
        /\ \A i \in 0..7 : (Bit(keyBit, i) = 1) <=> (key = 224 + i)
        /\ (key \in 232..251) => (~keyMod /\ keyBit = 0)

C7_Witness ==
    /\ keyDone
    /\ key = RGui
    /\ keyMod
    /\ keyBit = 128


\* What one invocation of the tick handler does when it runs to its end:
\* layout.tick() and its send_report, then, if update returned true, each
\* yielded event followed by its send_report.
TickTrace ==
    << <<"tick">>, <<"send">> >> \o
    (IF upd = "true"
     THEN [i \in 1..(2 * Len(evq)) |->
              IF i % 2 = 1 THEN <<"event", evq[(i + 1) \div 2]>> ELSE <<"send">>]
     ELSE <<>>)

IsPrefix(x, y) == Len(x) <= Len(y) /\ \A i \in 1..Len(x) : x[i] = y[i]

InSend == pc \in {"sr_lock_set", "sr_set", "sr_lock_write", "sr_write"}

\* C8: in every invocation of the tick handler, layout.tick() is applied and
\* its report sent before any event; then, only if update returned true, the
\* yielded events are applied in the order yielded, one send_report after
\* each; if update returned false no event is applied.
C8_TickOrder ==
    /\ IsPrefix(log, TickTrace)
    /\ pc = "update" => log = << <<"tick">>, <<"send">> >>
    /\ pc = "events" => Len(log) = 2 + 2 * (evi - 1)
    /\ (InSend /\ ret = "events") => Len(log) = 2 + 2 * (evi - 1)
    /\ (pc = "idle" /\ log # <<>>) => log = TickTrace
    /\ upd = "true" => evq = DebouncerEvents(prevStable, stable)

C8_Witness ==
    /\ pc = "idle"
    /\ upd = "true"
    /\ Len(log) = 6
    /\ log[3] = <<"event", <<"Release", <<1, 1>>>>>>
    /\ log[5] = <<"event", <<"Press", <<4, 5>>>>>>

\* C9: the tick handler is inside usb_class (set_keyboard_report, write) only
\* with the USB priority masked and no USB handler running, and the state of
\* the debouncer and the layout changes only in steps of the tick handler.
C9_UsbClassExclusive ==
    /\ [](pc \in {"sr_set", "sr_write"}
            => (basepri >= UsbPriority /\ usbRun = "none"))
    /\ [][(<<stable, prevStable, stack>>' # <<stable, prevStable, stack>>)
            => (usbRun = "none" /\ usbRun' = "none"
                /\ pc \in {"update", "events"})]_vars
    /\ []({"matrix", "debouncer", "layout"} \cap UsbResources = {})

C9_Witness ==
    /\ pc = "sr_write"
    /\ basepri = UsbPriority
    /\ retried
    /\ epBusy
    /\ stack = <<<<4, 5>>, <<1, 1>>>>

\* C10: every write is made under the lock, the loop of send_report writes
\* again only after a write that found the endpoint full, every call of
\* send_report returns, and every invocation of the tick handler ends, the
\* host polling the endpoint and the USB handlers returning.
C10_SendReportReturns ==
    /\ [](pc = "sr_write" => basepri >= UsbPriority)
    /\ [][(pc = "sr_write" /\ pc' = "sr_lock_write") => epBusy]_vars
    /\ (InSend ~> ~InSend)
    /\ ((pc # "idle") ~> (pc = "idle"))

C10_Witness ==
    /\ pc = "idle"
    /\ retried
    /\ upd = "true"
    /\ Len(log) = 6

\* C11: pressed(No) changes no byte; pressed of a modifier changes at most
\* byte 0; pressed of any other code, rollover included, leaves bytes 0 and 1
\* alone; so byte 1 is 0 in every report built from default().
C11_FrameEffect ==
    /\ [](report[1] = 0)
    /\ [][IsPress =>
            /\ kc' = 0 => report' = report
            /\ (224 <= kc' /\ kc' <= 231)
                   => \A i \in 1..7 : report'[i] = report[i]
            /\ ~(224 <= kc' /\ kc' <= 231)
                   => (report'[0] = report[0] /\ report'[1] = report[1])]_vars

C11_Witness ==
    /\ kc = A
    /\ AllSlots(report, 1)
    /\ report[0] = 129
    /\ hist \cap {1, 2, 3} = {}

(***************************************************************************)
(* SpecDup: a report built by pressed() calls, the calls that pass a code   *)
(* meant for a slot being counted.                                         *)
(***************************************************************************)
DupKeys == {No, PostFail, LCtrl, A, B, MediaPlayPause}

\* kc takes the default arm of the match in pressed.
SlotCode(k) ==
    /\ k # No
    /\ k \notin {ErrorRollOver, PostFail, ErrorUndefined}
    /\ ~is_modifier(k)

\* res.pressed(kc), counted
DupPress(k) ==
    /\ SlotCode(k) => cnt < MaxPresses
    /\ report' = pressed(report, k)
    /\ kc' = k
    /\ hist' = hist \cup {k}
    /\ cnt' = IF SlotCode(k) THEN cnt + 1 ELSE cnt
    /\ UNCHANGED <<keyVars, tickVars>>

DupNext == (\E k \in DupKeys : DupPress(k)) \/ NewReport

SpecDup == Init /\ [][DupNext]_vars

\* C12: pressed does not deduplicate. A pressed call with a code already in a
\* slot stores it once more while a slot is free; in a report given no error
\* code the number of non-zero slots is the number of calls with a slot code,
\* up to six, and the seventh such call fills the slots with ErrorRollOver,
\* also when one code was pressed seven times.
C12_NoDedup ==
    /\ [](hist \cap {1, 2, 3} = {} =>
            /\ cnt <= 6 => 6 - SlotCount(report, 0) = cnt
            /\ cnt >= 7 => AllSlots(report, 1))
    /\ [][(/\ IsPress /\ Ordinary(kc')
           /\ kc' \in SlotValues(report)
           /\ 0 \in SlotValues(report))
              => SlotCount(report', kc') = SlotCount(report, kc') + 1]_vars

C12_Witness ==
    /\ hist = {A}
    /\ cnt = 7
    /\ report = [i \in 0..7 |-> IF i < 2 THEN 0 ELSE 1]

=============================================================================
